---- MODULE Spec2Model ----
(***************************************************************************)
(* Model of rejected/utils.py: the daemonize() double fork with its PID    *)
(* file, and the signal dispatcher (signal_handler, shutdown_handler,      *)
(* rehash_handler, setup_signals).                                         *)
(*                                                                         *)
(* SpecDaemon   : one call of daemonize(pidfile, user); every process      *)
(*                image created by os.fork() runs the same code and the    *)
(*                scheduler interleaves them freely.                       *)
(* SpecSignals  : registration calls on the main thread and deliveries of  *)
(*                signals to signal_handler.                               *)
(* SpecLogging  : one call of setup_logging(config, debug).                *)
(***************************************************************************)
EXTENDS Integers, Sequences, FiniteSets, TLC

(* ------------------------------ bounds --------------------------------- *)
\* largest process id the kernel hands out in the model (pids are 9..MaxPid)
MaxPid == 11

Pids == 9..MaxPid

(* --------------------------- python values ----------------------------- *)
\* strings that end up in paths or files are sequences of characters/pieces
NoneStr == <<"<None>">>

EmptyStr == << >>

NoUser == "<None>"

EmptyUser == ""

\* python truthiness of an optional string
Truthy(s) == s \notin {NoneStr, EmptyStr}

TruthyUser(u) == u \notin {NoUser, EmptyUser}

Digits == <<"0", "1", "2", "3", "4", "5", "6", "7", "8", "9">>

\* '%i' % n for n >= 0
RECURSIVE ItoS(_)
ItoS(n) == IF n < 10 THEN <<Digits[n + 1]>>
           ELSE ItoS(n \div 10) \o <<Digits[(n % 10) + 1]>>

\* '%i\n' % pid
FormatPid(pid) == ItoS(pid) \o <<"\n">>

DigitVal(c) == CHOOSE d \in 0..9 : Digits[d + 1] = c

\* int(text): decimal digits with optional trailing newline; -1 if it does not parse
RECURSIVE StoI(_)
StoI(s) == IF Len(s) = 0 THEN 0
           ELSE StoI(SubSeq(s, 1, Len(s) - 1)) * 10 + DigitVal(s[Len(s)])

ParsePid(text) ==
    LET body == IF Len(text) > 0 /\ text[Len(text)] = "\n"
                THEN SubSeq(text, 1, Len(text) - 1) ELSE text
    IN IF Len(body) > 0 /\ \A i \in 1..Len(body) : \E d \in 1..10 : Digits[d] = body[i]
       THEN StoI(body) ELSE -1

(* ---------------------------- environment ------------------------------ *)
\* _DEFAULT_GID
DEFAULT_GID == 1

\* pwd database: user name -> pw_uid
UserDb == ("root" :> 0) @@ ("worker" :> 1000)

UserArgs == {NoUser, EmptyUser, "root", "worker", "ghost"}

\* application_name(): last segment of sys.argv[0]
application_name == "rejected"

CustomPath == <<"/var/run/rejected.pid">>

\* path.normpath('/tmp/%s-%i.pid' % (application_name(), pid))
DefaultPath(pid) == <<"/tmp/", application_name, "-">> \o ItoS(pid) \o <<".pid">>

PidfileArgs == {NoneStr, EmptyStr, CustomPath}

Paths == {CustomPath} \cup {DefaultPath(p) : p \in Pids}

\* a file left behind by an earlier run
StaleContent == FormatPid(7)

NoFile == [exists |-> FALSE, content |-> << >>, uid |-> -1, gid |-> -1]

StaleFile == [exists |-> TRUE, content |-> StaleContent, uid |-> 0, gid |-> 0]

VARIABLES
    env,        \* the call and its platform: pidfile, user, supportsPwd, euid, stale, pid
    procs,      \* process table: pid -> process image
    fs,         \* file system: path -> file
    SHUTDOWN_HANDLER, REHASH_HANDLER, RUNNING,
    disposition, \* signal number -> installed handler
    stack,      \* active executions of signal_handler, innermost last
    deliveries, \* what each delivery to signal_handler did
    regs,       \* the arguments of the last two shutdown_handler calls
    lastRehash, \* the argument of the last rehash_handler call
    logsetup    \* one call of setup_logging(config, debug)

vars == <<env, procs, fs, SHUTDOWN_HANDLER, REHASH_HANDLER, RUNNING,
          disposition, stack, deliveries, regs, lastRehash, logsetup>>

daemonVars == <<env, procs, fs>>

signalVars == <<SHUTDOWN_HANDLER, REHASH_HANDLER, RUNNING, disposition, stack,
                deliveries, regs, lastRehash>>

(* ======================================================================= *)
(*                              daemonize()                                *)
(* ======================================================================= *)
\* the process image that calls daemonize()
InitialImage(e) ==
    [ppid |-> 8, pc |-> "flush", status |-> "running", err |-> "", code |-> -1,
     uid |-> -1, pid |-> -1, pidfile |-> e.pidfile, user |-> e.user,
     isopen |-> FALSE, buf |-> << >>,
     euid |-> e.euid, cwd |-> "/home/app", umask |-> 18, sid |-> 8,
     stdio |-> "tty", logged |-> << >>]

InitialFs(e) == [path \in Paths |-> IF e.stale THEN StaleFile ELSE NoFile]

Envs == [pidfile : PidfileArgs, user : UserArgs, supportsPwd : BOOLEAN,
         euid : {0, 1000}, stale : BOOLEAN, pid : Pids]

Running(p) == p \in DOMAIN procs /\ procs[p].status = "running"

At(p, label) == Running(p) /\ procs[p].pc = label

Goto(p, label) == procs' = [procs EXCEPT ![p].pc = label]

\* an exception leaves daemonize() in process p
Raise(p, error) ==
    procs' = [procs EXCEPT ![p].status = "raised", ![p].err = error]

\* sys.exit(0)
SysExit(image) == [image EXCEPT !.status = "exited", !.code = 0]

\* lines 80-81
Flush(p) ==
    /\ At(p, "flush")
    /\ Goto(p, "getuid")
    /\ UNCHANGED <<env, fs, signalVars, logsetup>>

\* an unknown user is ignored instead of raising
GetUidImageLenient(image) ==
    IF env.supportsPwd /\ TruthyUser(image.user) /\ image.user \in DOMAIN UserDb
    THEN [image EXCEPT !.uid = UserDb[image.user], !.pc = "fork1"]
    ELSE [image EXCEPT !.uid = -1, !.pc = "fork1"]

\* pwd.getpwnam(user).pw_uid, KeyError for an unknown name
GetUidImage(image) ==
    IF env.supportsPwd /\ TruthyUser(image.user)
    THEN IF image.user \in DOMAIN UserDb
         THEN [image EXCEPT !.uid = UserDb[image.user], !.pc = "fork1"]
         ELSE [image EXCEPT !.status = "raised", !.err = "KeyError"]
    ELSE [image EXCEPT !.uid = -1, !.pc = "fork1"]

\* lines 84-87
GetUid(p) ==
    /\ At(p, "getuid")
    /\ procs' = [procs EXCEPT ![p] = GetUidImage(procs[p])]
    /\ UNCHANGED <<env, fs, signalVars, logsetup>>

\* os.fork() at label `at`: both images continue at `next`, the parent with
\* the child's pid and the child with 0; OSError when the fork fails
Fork(p, at, next) ==
    /\ At(p, at)
    /\ \/ Raise(p, "OSError:fork")
       \/ \E c \in Pids \ DOMAIN procs :
            procs' = [procs EXCEPT ![p].pid = c, ![p].pc = next]
                     @@ (c :> [procs[p] EXCEPT !.ppid = p, !.pid = 0, !.pc = next])
    /\ UNCHANGED <<env, fs, signalVars, logsetup>>

\* line 90
Fork1(p) == Fork(p, "fork1", "test1")

\* the parent of the first fork carries on instead of exiting
FirstForkParentContinues(image) == [image EXCEPT !.pc = "fork2"]

\* lines 91-92
FirstForkParentExit(image) ==
    IF image.pid > 0 THEN SysExit(image) ELSE [image EXCEPT !.pc = "fork2"]

Test1(p) ==
    /\ At(p, "test1")
    /\ procs' = [procs EXCEPT ![p] = FirstForkParentExit(procs[p])]
    /\ UNCHANGED <<env, fs, signalVars, logsetup>>

\* line 95
Fork2(p) == Fork(p, "fork2", "test2")

\* line 96
Test2(p) ==
    /\ At(p, "test2")
    /\ Goto(p, IF procs[p].pid > 0 THEN "path" ELSE "chdir")
    /\ UNCHANGED <<env, fs, signalVars, logsetup>>

\* lines 98-100: pidfile or normpath('/tmp/%s-%i.pid' % (application_name(), pid))
ResolvedPath(pidfile, pid) == IF Truthy(pidfile) THEN pidfile ELSE DefaultPath(pid)

ResolvePath(p) ==
    /\ At(p, "path")
    /\ procs' = [procs EXCEPT ![p].pidfile = ResolvedPath(procs[p].pidfile, procs[p].pid),
                              ![p].pc = "open"]
    /\ UNCHANGED <<env, fs, signalVars, logsetup>>

\* open(pidfile, 'w'): creates or truncates
OpenedFile(file, image) ==
    IF file.exists THEN [file EXCEPT !.content = << >>]
    ELSE [exists |-> TRUE, content |-> << >>, uid |-> image.euid, gid |-> image.euid]

\* line 103
Open(p) ==
    /\ At(p, "open")
    /\ \/ Raise(p, "IOError:open") /\ UNCHANGED fs
       \/ /\ fs' = [fs EXCEPT ![procs[p].pidfile] = OpenedFile(@, procs[p])]
          /\ procs' = [procs EXCEPT ![p].isopen = TRUE, ![p].pc = "write"]
    /\ UNCHANGED <<env, signalVars, logsetup>>

\* writes the parent's pid, as os.getppid() would
PidToWriteParent(image) == image.ppid

\* the integer line 104 formats
PidToWrite(image) == image.pid

\* line 104: buffered until the handle is flushed
Write(p) ==
    /\ At(p, "write")
    /\ procs' = [procs EXCEPT ![p].buf = @ \o FormatPid(PidToWrite(procs[p])),
                              ![p].pc = "fchown"]
    /\ UNCHANGED <<env, fs, signalVars, logsetup>>

\* leaving the with block flushes the buffer into the file and closes it
Flushed(file, image) == [file EXCEPT !.content = @ \o image.buf]

\* passes the group where the user belongs and the user where the group belongs
FchownSwapped(p) ==
    /\ At(p, "fchown")
    /\ IF procs[p].uid > -1
       THEN /\ fs' = [fs EXCEPT ![procs[p].pidfile].uid = DEFAULT_GID,
                                ![procs[p].pidfile].gid = procs[p].uid]
            /\ Goto(p, "close")
       ELSE Goto(p, "close") /\ UNCHANGED fs
    /\ UNCHANGED <<env, signalVars, logsetup>>

\* lines 107-108
Fchown(p) ==
    /\ At(p, "fchown")
    /\ IF procs[p].uid > -1
       THEN \/ /\ procs[p].euid = 0 \/ procs[p].uid = procs[p].euid
               /\ fs' = [fs EXCEPT ![procs[p].pidfile].uid = procs[p].uid,
                                   ![procs[p].pidfile].gid = DEFAULT_GID]
               /\ Goto(p, "close")
            \/ /\ procs[p].euid # 0
               /\ fs' = [fs EXCEPT ![procs[p].pidfile] = Flushed(@, procs[p])]
               /\ procs' = [procs EXCEPT ![p].status = "raised", ![p].err = "OSError:fchown",
                                         ![p].isopen = FALSE, ![p].buf = << >>]
       ELSE Goto(p, "close") /\ UNCHANGED fs
    /\ UNCHANGED <<env, signalVars, logsetup>>

\* end of the with block, line 103-108
Close(p) ==
    /\ At(p, "close")
    /\ \/ /\ fs' = [fs EXCEPT ![procs[p].pidfile] = Flushed(@, procs[p])]
          /\ procs' = [procs EXCEPT ![p].isopen = FALSE, ![p].buf = << >>, ![p].pc = "exit2"]
       \/ /\ procs' = [procs EXCEPT ![p].status = "raised", ![p].err = "IOError:write",
                                    ![p].isopen = FALSE, ![p].buf = << >>]
          /\ UNCHANGED fs
    /\ UNCHANGED <<env, signalVars, logsetup>>

\* line 111
Exit2(p) ==
    /\ At(p, "exit2")
    /\ procs' = [procs EXCEPT ![p] = SysExit(@)]
    /\ UNCHANGED <<env, fs, signalVars, logsetup>>

\* the working directory is left where it was
ChdirSkipped(p) ==
    /\ At(p, "chdir")
    /\ Goto(p, "umask")
    /\ UNCHANGED <<env, fs, signalVars, logsetup>>

\* line 114
Chdir(p) ==
    /\ At(p, "chdir")
    /\ procs' = [procs EXCEPT ![p].cwd = "/", ![p].pc = "umask"]
    /\ UNCHANGED <<env, fs, signalVars, logsetup>>

\* line 115
Umask(p) ==
    /\ At(p, "umask")
    /\ procs' = [procs EXCEPT ![p].umask = 0, ![p].pc = "setsid"]
    /\ UNCHANGED <<env, fs, signalVars, logsetup>>

\* line 116: the caller becomes the leader of a new session
Setsid(p) ==
    /\ At(p, "setsid")
    /\ procs' = [procs EXCEPT ![p].sid = p, ![p].pc = "redirect"]
    /\ UNCHANGED <<env, fs, signalVars, logsetup>>

\* lines 119-124
Redirect(p) ==
    /\ At(p, "redirect")
    /\ procs' = [procs EXCEPT ![p].stdio = "/dev/null", ![p].pc = "seteuid"]
    /\ UNCHANGED <<env, fs, signalVars, logsetup>>

\* a failing os.seteuid(uid) is not caught
SetEuidImageFatal(image) ==
    IF image.uid > -1 /\ image.uid # image.euid
    THEN IF image.euid = 0
         THEN [image EXCEPT !.euid = image.uid, !.pc = "return"]
         ELSE [image EXCEPT !.status = "raised", !.err = "OSError:seteuid"]
    ELSE [image EXCEPT !.pc = "return"]

\* lines 127-136: os.seteuid(uid) is allowed to root only; OSError is logged
SetEuidImage(image) ==
    LET announced == IF TruthyUser(image.user)
                     THEN [image EXCEPT !.logged = @ \o <<"info:changing user">>]
                     ELSE image
    IN IF image.uid > -1 /\ image.uid # image.euid
       THEN IF image.euid = 0
            THEN [announced EXCEPT !.euid = image.uid, !.pc = "return"]
            ELSE [announced EXCEPT !.logged = @ \o <<"error:could not set the user">>,
                                   !.pc = "return"]
       ELSE [announced EXCEPT !.pc = "return"]

Seteuid(p) ==
    /\ At(p, "seteuid")
    /\ procs' = [procs EXCEPT ![p] = SetEuidImage(procs[p])]
    /\ UNCHANGED <<env, fs, signalVars, logsetup>>

\* line 138
Return(p) ==
    /\ At(p, "return")
    /\ procs' = [procs EXCEPT ![p].status = "returned"]
    /\ UNCHANGED <<env, fs, signalVars, logsetup>>

(* ======================================================================= *)
(*                           signal dispatcher                             *)
(* ======================================================================= *)
\* most signals delivered to signal_handler in one behaviour
MaxDeliveries == 3

\* most executions of signal_handler active at once (python runs a handler
\* for a newly arrived signal inside a handler that is still executing)
MaxDepth == 2

SIGHUP == 1

SIGUSR1 == 10

SIGTERM == 15

\* the three above, and SIGINT and SIGUSR2
Signums == {SIGTERM, SIGHUP, SIGUSR1, 2, 12}

\* _SIGNALS, lines 44-46
SIGNALS == (SIGTERM :> "SIGTERM") @@ (SIGHUP :> "SIGHUP") @@ (SIGUSR1 :> "SIGUSR1")

None == "None"

Callbacks == {"A", "B"}

HandlerArgs == {None} \cup Callbacks

\* truth value of a callback slot
IsSet(handler) == handler # None

NewDelivery(signum) ==
    [signum |-> signum, invoked |-> << >>, dumped |-> FALSE, log |-> << >>,
     outcome |-> "active"]

Top == stack[Len(stack)]

InHandler(label) == Len(stack) > 0 /\ Top.pc = label

Step(label) == stack' = [stack EXCEPT ![Len(stack)].pc = label]

Pop == stack' = SubSeq(stack, 1, Len(stack) - 1)

Logged(id, line) == [deliveries EXCEPT ![id].log = Append(@, line)]

\* what the interpreter starts with: its own handler for SIGINT (2), the
\* system default for the rest
InitialDisposition == [n \in Signums |-> IF n = 2 THEN "default_int_handler" ELSE "SIG_DFL"]

\* installs the handler for every signal number
setup_signals_all ==
    /\ stack = << >>
    /\ disposition' = [n \in Signums |-> "signal_handler"]
    /\ UNCHANGED <<daemonVars, logsetup, SHUTDOWN_HANDLER, REHASH_HANDLER, RUNNING, stack, deliveries, regs, lastRehash>>

\* lines 302-306
setup_signals ==
    /\ stack = << >>
    /\ disposition' = [n \in Signums |->
                         IF n \in {SIGTERM, SIGUSR1, SIGHUP} THEN "signal_handler"
                         ELSE disposition[n]]
    /\ UNCHANGED <<daemonVars, logsetup, SHUTDOWN_HANDLER, REHASH_HANDLER, RUNNING, stack, deliveries, regs, lastRehash>>

\* stores the callback in the shutdown slot
rehash_handler_writes_shutdown(handler) ==
    /\ stack = << >>
    /\ SHUTDOWN_HANDLER' = handler
    /\ lastRehash' = handler
    /\ UNCHANGED <<daemonVars, logsetup, REHASH_HANDLER, RUNNING, disposition, stack, deliveries, regs>>

\* lines 338-347
rehash_handler(handler) ==
    /\ stack = << >>
    /\ REHASH_HANDLER' = handler
    /\ lastRehash' = handler
    /\ UNCHANGED <<daemonVars, logsetup, SHUTDOWN_HANDLER, RUNNING, disposition, stack, deliveries, regs>>

\* the last two arguments passed to shutdown_handler
Remember(handler) == IF Len(regs) < 2 THEN Append(regs, handler) ELSE <<regs[2], handler>>

\* keeps the callback registered first
shutdown_handler_keep_first(handler) ==
    /\ stack = << >>
    /\ SHUTDOWN_HANDLER' = IF IsSet(SHUTDOWN_HANDLER) THEN SHUTDOWN_HANDLER ELSE handler
    /\ regs' = Remember(handler)
    /\ UNCHANGED <<daemonVars, logsetup, REHASH_HANDLER, RUNNING, disposition, stack, deliveries, lastRehash>>

\* lines 350-359
shutdown_handler(handler) ==
    /\ stack = << >>
    /\ SHUTDOWN_HANDLER' = handler
    /\ regs' = Remember(handler)
    /\ UNCHANGED <<daemonVars, logsetup, REHASH_HANDLER, RUNNING, disposition, stack, deliveries, lastRehash>>

\* signal_handler(signum, frame) is entered: by the interpreter for a signal
\* whose disposition is signal_handler (also while a handler is executing), or
\* by a direct call from the main thread
Deliver(signum) ==
    /\ Len(deliveries) < MaxDeliveries
    /\ Len(stack) < MaxDepth
    /\ disposition[signum] = "signal_handler" \/ stack = << >>
    /\ deliveries' = Append(deliveries, NewDelivery(signum))
    /\ stack' = Append(stack, [id |-> Len(deliveries) + 1, signum |-> signum,
                               pc |-> "log318"])
    /\ UNCHANGED <<daemonVars, logsetup, SHUTDOWN_HANDLER, REHASH_HANDLER, RUNNING, disposition, regs, lastRehash>>

\* an exception raised by the innermost execution propagates into the code it
\* interrupted: every enclosing execution of the handler is abandoned as well
Unwound == [i \in 1..Len(deliveries) |->
              IF i = Top.id THEN [deliveries[i] EXCEPT !.outcome = "raised"]
              ELSE IF \E k \in 1..Len(stack) : stack[k].id = i
                   THEN [deliveries[i] EXCEPT !.outcome = "interrupted"]
                   ELSE deliveries[i]]

\* line 318: _SIGNALS[signum] is a KeyError for a number that is not a key
LogReceived ==
    /\ InHandler("log318")
    /\ IF Top.signum \in DOMAIN SIGNALS
       THEN /\ deliveries' = Logged(Top.id, <<"Signal received", SIGNALS[Top.signum]>>)
            /\ Step("dispatch")
       ELSE /\ deliveries' = Unwound
            /\ stack' = << >>
    /\ UNCHANGED <<daemonVars, logsetup, SHUTDOWN_HANDLER, REHASH_HANDLER, RUNNING, disposition, regs, lastRehash>>

\* SIGTERM calls the slot without testing it
BranchUnguardedShutdown(signum, shutdown, rehash) ==
    IF signum = SIGTERM THEN "call_shutdown"
    ELSE IF signum = SIGHUP /\ IsSet(rehash) THEN "call_rehash"
    ELSE IF signum = SIGUSR1 THEN "show_frames"
    ELSE "log335"

\* the SIGHUP test forgets the signal number
BranchRehashAnySignal(signum, shutdown, rehash) ==
    IF signum = SIGTERM /\ IsSet(shutdown) THEN "call_shutdown"
    ELSE IF IsSet(rehash) THEN "call_rehash"
    ELSE IF signum = SIGUSR1 THEN "show_frames"
    ELSE "log335"

\* SIGHUP is taken for a shutdown request
BranchShutdownOnHup(signum, shutdown, rehash) ==
    IF signum \in {SIGTERM, SIGHUP} /\ IsSet(shutdown) THEN "call_shutdown"
    ELSE IF signum = SIGHUP /\ IsSet(rehash) THEN "call_rehash"
    ELSE IF signum = SIGUSR1 THEN "show_frames"
    ELSE "log335"

\* the if/elif chain of lines 321, 326, 330, 334
Branch(signum, shutdown, rehash) ==
    IF signum = SIGTERM /\ IsSet(shutdown) THEN "call_shutdown"
    ELSE IF signum = SIGHUP /\ IsSet(rehash) THEN "call_rehash"
    ELSE IF signum = SIGUSR1 THEN "show_frames"
    ELSE "log335"

Dispatch ==
    /\ InHandler("dispatch")
    /\ Step(Branch(Top.signum, SHUTDOWN_HANDLER, REHASH_HANDLER))
    /\ UNCHANGED <<daemonVars, logsetup, SHUTDOWN_HANDLER, REHASH_HANDLER, RUNNING, disposition, deliveries, regs, lastRehash>>

\* the shutdown callback is dropped once it has been called
CallShutdownOneShot ==
    /\ InHandler("call_shutdown")
    /\ deliveries' = [deliveries EXCEPT ![Top.id].invoked = Append(@, <<"shutdown", SHUTDOWN_HANDLER>>)]
    /\ Step("in_callback")
    /\ SHUTDOWN_HANDLER' = None
    /\ UNCHANGED <<daemonVars, logsetup, REHASH_HANDLER, RUNNING, disposition, regs, lastRehash>>

\* lines 322-323
CallShutdown ==
    /\ InHandler("call_shutdown")
    /\ deliveries' = [Logged(Top.id, <<"Calling shutdown handler", SHUTDOWN_HANDLER>>)
                        EXCEPT ![Top.id].invoked = Append(@, <<"shutdown", SHUTDOWN_HANDLER>>)]
    /\ Step("in_callback")
    /\ UNCHANGED <<daemonVars, logsetup, SHUTDOWN_HANDLER, REHASH_HANDLER, RUNNING, disposition, regs, lastRehash>>

\* calls the rehash callback twice
CallRehashTwice ==
    /\ InHandler("call_rehash")
    /\ deliveries' = [deliveries EXCEPT ![Top.id].invoked =
                         @ \o <<<<"rehash", REHASH_HANDLER>>, <<"rehash", REHASH_HANDLER>>>>]
    /\ Step("in_callback")
    /\ UNCHANGED <<daemonVars, logsetup, SHUTDOWN_HANDLER, REHASH_HANDLER, RUNNING, disposition, regs, lastRehash>>

\* line 327
CallRehash ==
    /\ InHandler("call_rehash")
    /\ deliveries' = [deliveries EXCEPT ![Top.id].invoked = Append(@, <<"rehash", REHASH_HANDLER>>)]
    /\ Step("in_callback")
    /\ UNCHANGED <<daemonVars, logsetup, SHUTDOWN_HANDLER, REHASH_HANDLER, RUNNING, disposition, regs, lastRehash>>

\* the callback returns to signal_handler
CallbackReturn ==
    /\ InHandler("in_callback")
    /\ Step("return")
    /\ UNCHANGED <<daemonVars, logsetup, SHUTDOWN_HANDLER, REHASH_HANDLER, RUNNING, disposition, deliveries, regs, lastRehash>>

\* line 331 and lines 362-368
show_frames ==
    /\ InHandler("show_frames")
    /\ deliveries' = [Logged(Top.id, <<"File, line, in", "MainThread">>)
                        EXCEPT ![Top.id].dumped = TRUE]
    /\ Step("return")
    /\ UNCHANGED <<daemonVars, logsetup, SHUTDOWN_HANDLER, REHASH_HANDLER, RUNNING, disposition, regs, lastRehash>>

\* line 335
LogNoHandler ==
    /\ InHandler("log335")
    /\ deliveries' = Logged(Top.id, <<"No valid signal handler defined", SIGNALS[Top.signum]>>)
    /\ Step("return")
    /\ UNCHANGED <<daemonVars, logsetup, SHUTDOWN_HANDLER, REHASH_HANDLER, RUNNING, disposition, regs, lastRehash>>

\* signal_handler returns to the code it interrupted
HandlerReturn ==
    /\ InHandler("return")
    /\ deliveries' = [deliveries EXCEPT ![Top.id].outcome = "returned"]
    /\ Pop
    /\ UNCHANGED <<daemonVars, logsetup, SHUTDOWN_HANDLER, REHASH_HANDLER, RUNNING, disposition, regs, lastRehash>>

(* ======================================================================= *)
(*                             setup_logging()                             *)
(* ======================================================================= *)
\* python values of a logging configuration: a string, an integer or a list
PyStr(text) == [kind |-> "str", str |-> text, int |-> 0, items |-> << >>]

PyInt(number) == [kind |-> "int", str |-> "", int |-> number, items |-> << >>]

PyList(items) == [kind |-> "list", str |-> "", int |-> 0, items |-> items]

\* LEVELS.get(name, logging.NOTSET), lines 37-41
LevelOf(value) ==
    IF value.kind # "str" THEN 0
    ELSE CASE value.str = "debug" -> 10
           [] value.str = "info" -> 20
           [] value.str = "warning" -> 30
           [] value.str = "error" -> 40
           [] value.str = "critical" -> 50
           [] OTHER -> 0

\* handlers.SysLogHandler.facility_names
FacilityNames == {"daemon", "local0", "user"}

LevelArgs == {"<absent>", "debug", "warning", "verbose"}

HandlerConfigs == {"<absent>", "syslog", "console"}

FacilityArgs == {"<absent>", "local0", "not-a-real-facility"}

\* loggers: absent, or a list of names and of [name, level] pairs
LoggerArgs == {<< >>,
               <<PyStr("pika")>>,
               <<PyList(<<PyStr("rejected"), PyStr("error")>>), PyStr("pika")>>}

LogInputs == [level : LevelArgs, filename : BOOLEAN, handler : HandlerConfigs,
              facility : FacilityArgs, loggers : LoggerArgs, debug : BOOLEAN]

KeysOf(in) ==
    {"format"}
      \cup (IF in.level # "<absent>" THEN {"level"} ELSE {})
      \cup (IF in.filename THEN {"filename"} ELSE {})
      \cup (IF in.handler # "<absent>" THEN {"handler"} ELSE {})
      \cup (IF in.facility # "<absent>" THEN {"syslog"} ELSE {})
      \cup (IF in.loggers # << >> THEN {"loggers"} ELSE {})

\* the config dictionary the caller passes
ConfigOf(in) ==
    [key \in KeysOf(in) |->
        CASE key = "format" -> PyStr("%(message)s")
          [] key = "level" -> PyStr(in.level)
          [] key = "filename" -> PyStr("/var/log/app.log")
          [] key = "handler" -> PyStr(in.handler)
          [] key = "syslog" -> PyStr(in.facility)
          [] key = "loggers" -> PyList(in.loggers)]

\* config[key] = value
SetItem(config, key, value) ==
    [k \in DOMAIN config \cup {key} |-> IF k = key THEN value ELSE config[k]]

\* del config[key]
DelItem(config, key) == [k \in DOMAIN config \ {key} |-> config[k]]

NewLogSetup(in) ==
    [pc |-> "debug", debug |-> in.debug, config |-> ConfigOf(in), err |-> "",
     called |-> FALSE, passed |-> ConfigOf(in), handlers |-> {}, levels |-> {},
     errors |-> << >>]

\* debug mode keeps the configured file
DebugOverriddenKeepsFile(config) == SetItem(config, "level", PyStr("debug"))

\* lines 226-231
DebugOverridden(config) ==
    LET leveled == SetItem(config, "level", PyStr("debug"))
    IN IF "filename" \in DOMAIN leveled THEN DelItem(leveled, "filename") ELSE leveled

\* lines 224-231
DebugOverride ==
    /\ logsetup.pc = "debug"
    /\ logsetup' = [logsetup EXCEPT
                      !.config = IF logsetup.debug THEN DebugOverridden(@) ELSE @,
                      !.pc = "level"]
    /\ UNCHANGED <<daemonVars, signalVars>>

\* line 234: config['level'] is a KeyError without the key
MapLevel ==
    /\ logsetup.pc = "level"
    /\ logsetup' =
          IF "level" \in DOMAIN logsetup.config
          THEN [logsetup EXCEPT
                  !.config = SetItem(@, "level", PyInt(LevelOf(logsetup.config["level"]))),
                  !.pc = "basicConfig"]
          ELSE [logsetup EXCEPT !.err = "KeyError:level", !.pc = "raised"]
    /\ UNCHANGED <<daemonVars, signalVars>>

\* line 237: logging.basicConfig(**config) gives the root logger a FileHandler
\* for a filename and a StreamHandler otherwise
BasicConfig ==
    /\ logsetup.pc = "basicConfig"
    /\ logsetup' = [logsetup EXCEPT
                      !.called = TRUE,
                      !.passed = logsetup.config,
                      !.handlers = IF "filename" \in DOMAIN logsetup.config
                                   THEN {"FileHandler"} ELSE {"StreamHandler"},
                      !.pc = "loggers"]
    /\ UNCHANGED <<daemonVars, signalVars>>

\* lines 193-201: the level one entry of loggers asks for
LoggerLevel(entry, level) ==
    IF entry.kind = "list"
    THEN <<entry.items[1].str, LevelOf(entry.items[2])>>
    ELSE <<entry.str, level>>

\* line 243 and lines 179-201
SetLoggerLevels ==
    /\ logsetup.pc = "loggers"
    /\ logsetup' = [logsetup EXCEPT
                      !.levels = IF "loggers" \in DOMAIN logsetup.config
                                 THEN LET entries == logsetup.config["loggers"].items
                                      IN {LoggerLevel(entries[i], logsetup.config["level"].int) :
                                             i \in 1..Len(entries)}
                                 ELSE {},
                      !.pc = "handler"]
    /\ UNCHANGED <<daemonVars, signalVars>>

\* lines 246-275: a FileHandler is a StreamHandler too
SyslogConfigured(setup) ==
    IF "syslog" \notin DOMAIN setup.config
    THEN [setup EXCEPT !.err = "KeyError:syslog", !.pc = "raised"]
    ELSE IF setup.config["syslog"].str \in FacilityNames
         THEN [setup EXCEPT
                 !.handlers = (IF setup.debug THEN @ ELSE {}) \cup {"SysLogHandler"},
                 !.pc = "done"]
         ELSE [setup EXCEPT !.errors = Append(@, "Invalid facility, syslog logging aborted"),
                            !.pc = "done"]

AddHandler ==
    /\ logsetup.pc = "handler"
    /\ logsetup' =
          IF "handler" \in DOMAIN logsetup.config /\ logsetup.config["handler"] = PyStr("syslog")
          THEN SyslogConfigured(logsetup)
          ELSE [logsetup EXCEPT !.pc = "done"]
    /\ UNCHANGED <<daemonVars, signalVars>>

(* ======================================================================= *)
(*                            specifications                               *)
(* ======================================================================= *)
SignalInit ==
    /\ SHUTDOWN_HANDLER = None
    /\ REHASH_HANDLER = None
    /\ RUNNING = FALSE
    /\ disposition = InitialDisposition
    /\ stack = << >>
    /\ deliveries = << >>
    /\ regs = << >>
    /\ lastRehash = "never called"

DaemonInit ==
    /\ env \in Envs
    /\ procs = (env.pid :> InitialImage(env))
    /\ fs = InitialFs(env)

\* no call of setup_logging is under way
NoLogSetup ==
    [NewLogSetup([level |-> "<absent>", filename |-> FALSE, handler |-> "<absent>",
                  facility |-> "<absent>", loggers |-> << >>, debug |-> FALSE])
       EXCEPT !.pc = "idle"]

Init == DaemonInit /\ SignalInit /\ logsetup = NoLogSetup

DaemonNext ==
    \/ \E p \in Pids : Flush(p)
    \/ \E p \in Pids : GetUid(p)
    \/ \E p \in Pids : Fork1(p)
    \/ \E p \in Pids : Test1(p)
    \/ \E p \in Pids : Fork2(p)
    \/ \E p \in Pids : Test2(p)
    \/ \E p \in Pids : ResolvePath(p)
    \/ \E p \in Pids : Open(p)
    \/ \E p \in Pids : Write(p)
    \/ \E p \in Pids : Fchown(p)
    \/ \E p \in Pids : Close(p)
    \/ \E p \in Pids : Exit2(p)
    \/ \E p \in Pids : Chdir(p)
    \/ \E p \in Pids : Umask(p)
    \/ \E p \in Pids : Setsid(p)
    \/ \E p \in Pids : Redirect(p)
    \/ \E p \in Pids : Seteuid(p)
    \/ \E p \in Pids : Return(p)

SignalNext ==
    \/ setup_signals
    \/ \E handler \in HandlerArgs : rehash_handler(handler)
    \/ \E handler \in HandlerArgs : shutdown_handler(handler)
    \/ \E signum \in Signums : Deliver(signum)
    \/ LogReceived \/ Dispatch \/ CallShutdown \/ CallRehash \/ CallbackReturn
    \/ show_frames \/ LogNoHandler \/ HandlerReturn

\* one daemonize() call
SpecDaemon == Init /\ [][DaemonNext]_vars

\* the process whose signal dispatcher is exercised has not called daemonize()
SignalsInit ==
    /\ SignalInit
    /\ env = [pidfile |-> NoneStr, user |-> NoUser, supportsPwd |-> TRUE,
              euid |-> 0, stale |-> FALSE, pid |-> 9]
    /\ procs = (env.pid :> InitialImage(env))
    /\ fs = InitialFs(env)
    /\ logsetup = NoLogSetup

\* the signal dispatcher of one process
SpecSignals == SignalsInit /\ [][SignalNext]_vars

LoggingInit ==
    /\ SignalInit
    /\ env = [pidfile |-> NoneStr, user |-> NoUser, supportsPwd |-> TRUE,
              euid |-> 0, stale |-> FALSE, pid |-> 9]
    /\ procs = (env.pid :> InitialImage(env))
    /\ fs = InitialFs(env)
    /\ \E in \in LogInputs : logsetup = NewLogSetup(in)

LoggingNext == DebugOverride \/ MapLevel \/ BasicConfig \/ SetLoggerLevels \/ AddHandler

\* one call of setup_logging(config, debug)
SpecLogging == LoggingInit /\ [][LoggingNext]_vars

(* ======================================================================= *)
(*                        properties of daemonize()                        *)
(* ======================================================================= *)
IsOriginal(p) == p = env.pid

IsFirstChild(p) == p \in DOMAIN procs /\ procs[p].ppid = env.pid

IsGrandchild(p) == p \in DOMAIN procs /\ IsFirstChild(procs[p].ppid)

\* the file daemonize() is to leave behind for the daemon g
PidFileOf(g) == fs[ResolvedPath(env.pidfile, g)]

\* a file this run of daemonize() has put bytes into
Written(path) == fs[path] # InitialFs(env)[path] /\ fs[path].content # << >>

PidfileFailure == {"IOError:open", "IOError:write"}

\* C3: whenever daemonize() has returned in a process, the PID file exists at
\* the resolved path and holds that process's pid followed by a newline.
C3_PidFileReadyAtReturn ==
    \A p \in DOMAIN procs :
        procs[p].status = "returned" =>
            PidFileOf(p).exists /\ PidFileOf(p).content = FormatPid(p)

\* C4: a PID file that has been written holds the pid of the grandchild (the
\* child of the second fork), and it parses back to that pid; it never holds
\* the pid of the original caller or of the first child.
C4_PidFileHoldsGrandchildPid ==
    \A path \in Paths :
        Written(path) =>
            /\ \E g \in DOMAIN procs :
                  IsGrandchild(g) /\ fs[path].content = FormatPid(g)
                                  /\ ParsePid(fs[path].content) = g
            /\ \A p \in DOMAIN procs :
                  IsOriginal(p) \/ IsFirstChild(p) => ParsePid(fs[path].content) # p

C4_Witness ==
    \E g \in DOMAIN procs :
        /\ IsGrandchild(g)
        /\ Written(ResolvedPath(env.pidfile, g))
        /\ PidFileOf(g).content = FormatPid(g)
        /\ procs[procs[g].ppid].status = "exited"

\* C5: daemonize() returns only in the grandchild. The original caller, once
\* its fork has succeeded, does nothing but exit with status 0; the first
\* child, once its fork has succeeded, only handles the PID file and exits
\* with status 0 after the file holds the pid; neither reaches the code after
\* the second fork's parent branch.
C5_OnlyGrandchildReturns ==
    \A p \in DOMAIN procs :
        /\ procs[p].status = "returned" => IsGrandchild(p)
        /\ IsOriginal(p) /\ procs[p].pid > 0 =>
              /\ procs[p].pc = "test1"
              /\ procs[p].status \in {"running", "exited"}
        /\ IsFirstChild(p) /\ procs[p].pid > 0 =>
              /\ procs[p].pc \in {"test2", "path", "open", "write", "fchown", "close", "exit2"}
              /\ procs[p].status = "exited" =>
                    PidFileOf(procs[p].pid).content = FormatPid(procs[p].pid)
        /\ procs[p].status = "exited" =>
              procs[p].code = 0 /\ (IsOriginal(p) \/ IsFirstChild(p))

C5_Witness ==
    \E c, g \in DOMAIN procs :
        /\ procs[env.pid].status = "exited" /\ procs[env.pid].code = 0
        /\ IsFirstChild(c) /\ procs[c].status = "exited" /\ procs[c].code = 0
        /\ procs[g].ppid = c /\ procs[g].status = "returned"

\* C6: when writing the PID file has failed, no process has returned from
\* daemonize() to run as a daemon without its PID file.
C6_PidFileFailureAborts ==
    \A c, g \in DOMAIN procs :
        procs[c].status = "raised" /\ procs[c].err \in PidfileFailure =>
            ~(procs[g].status = "returned" /\ PidFileOf(g).content # FormatPid(g))

\* C7: with a user database and a run_as_user it does not know, daemonize()
\* raises in the calling process before the first fork: there is no other
\* process, no file is touched, and the caller has not changed directory,
\* umask, session or standard streams.
C7_UnknownUserFailsBeforeFork ==
    env.supportsPwd /\ TruthyUser(env.user) /\ env.user \notin DOMAIN UserDb =>
        /\ DOMAIN procs = {env.pid}
        /\ fs = InitialFs(env)
        /\ procs[env.pid].pc \in {"flush", "getuid"}
        /\ procs[env.pid].status \in {"running", "raised"}
        /\ procs[env.pid].status = "raised" => procs[env.pid].err = "KeyError"
        /\ procs[env.pid].pid = -1
        /\ [f \in {"cwd", "umask", "sid", "stdio", "euid"} |-> procs[env.pid][f]]
             = [f \in {"cwd", "umask", "sid", "stdio", "euid"} |-> InitialImage(env)[f]]

C7_Witness ==
    /\ env.supportsPwd /\ env.user = "ghost"
    /\ procs[env.pid].status = "raised" /\ procs[env.pid].err = "KeyError"

\* run_as_user names a user the user database knows
Resolves == env.supportsPwd /\ env.user \in DOMAIN UserDb

\* the first child has left the fchown step behind without an error
PastFchown(c) ==
    /\ IsFirstChild(c) /\ procs[c].pid > 0
    /\ procs[c].pc \in {"close", "exit2"}
    /\ procs[c].status \in {"running", "exited"}

\* the owner open() gives the file: that of the file it truncates, or the creator
OwnerAfterOpen(c) ==
    IF env.stale THEN <<StaleFile.uid, StaleFile.gid>> ELSE <<procs[c].euid, procs[c].euid>>

SeteuidFailed(p) ==
    \E k \in 1..Len(procs[p].logged) : procs[p].logged[k] = "error:could not set the user"

\* C12: a process in which os.seteuid failed has logged the failure, keeps the
\* effective uid it had, and goes on to return from daemonize(); a non-root
\* grandchild asked to become another user is in that case.
C12_SeteuidFailureNotFatal ==
    \A p \in DOMAIN procs :
        /\ SeteuidFailed(p) =>
              /\ procs[p].euid = env.euid
              /\ procs[p].pc = "return"
              /\ procs[p].status \in {"running", "returned"}
        /\ procs[p].pc = "return" /\ procs[p].uid > -1 /\ procs[p].uid # env.euid
              /\ env.euid # 0 => SeteuidFailed(p)
        /\ procs[p].err # "OSError:seteuid"

C12_Witness ==
    \E p \in DOMAIN procs :
        /\ SeteuidFailed(p) /\ procs[p].status = "returned"
        /\ procs[p].euid = 1000 /\ procs[p].uid = 0

\* C13: without a user database, a call that asks for run_as_user does not
\* return from daemonize() in any process.
C13_NoUserDatabaseIsAnError ==
    ~env.supportsPwd /\ TruthyUser(env.user) =>
        \A p \in DOMAIN procs : procs[p].status # "returned"

Detach(p) == <<procs[p].cwd, procs[p].umask, procs[p].sid, procs[p].stdio, procs[p].euid>>

NotDetached == <<"/home/app", 18, 8, "tty", env.euid>>

\* C16: in every process the detach steps are done in the order chdir('/'),
\* umask(0), setsid(), redirection to /dev/null, effective uid switch; a
\* process that has returned has done the first four; and only the grandchild
\* does any of them.
C16_DetachOrder ==
    \A p \in DOMAIN procs :
        /\ procs[p].umask = 0 => procs[p].cwd = "/"
        /\ procs[p].sid = p => procs[p].umask = 0
        /\ procs[p].stdio = "/dev/null" => procs[p].sid = p
        /\ procs[p].euid # env.euid => procs[p].stdio = "/dev/null"
        /\ procs[p].status = "returned" =>
              /\ <<procs[p].cwd, procs[p].umask, procs[p].sid, procs[p].stdio>>
                    = <<"/", 0, p, "/dev/null">>
              /\ procs[p].uid > -1 /\ env.euid = 0 => procs[p].euid = procs[p].uid
        /\ Detach(p) # NotDetached => IsGrandchild(p) /\ procs[p].pid = 0
        /\ procs[p].sid \in {8, p}

C16_Witness ==
    \E g \in DOMAIN procs :
        /\ IsGrandchild(g) /\ procs[g].status = "returned"
        /\ Detach(g) = <<"/", 0, g, "/dev/null", 1000>>
        /\ env.euid = 0
        /\ Detach(env.pid) = NotDetached /\ Detach(procs[g].ppid) = NotDetached

(* ======================================================================= *)
(*                   properties of the signal dispatcher                   *)
(* ======================================================================= *)
Active == {stack[k].id : k \in 1..Len(stack)}

\* the position of the active execution that handles delivery i
PcOf(i) == stack[CHOOSE k \in 1..Len(stack) : stack[k].id = i].pc

BeforeCall == {"log318", "dispatch"}

AfterCall == {"in_callback", "return"}

\* C1: after shutdown_handler(A) then shutdown_handler(B) the slot holds B, and
\* a delivery of SIGTERM goes to the call of the slot and invokes B, once, and
\* nothing else.
C1_LastShutdownHandlerWins ==
    Len(regs) = 2 /\ regs[1] \in Callbacks /\ regs[2] \in Callbacks =>
        /\ SHUTDOWN_HANDLER = regs[2]
        /\ \A i \in Active :
              deliveries[i].signum = SIGTERM =>
                  /\ PcOf(i) \in BeforeCall \cup {"call_shutdown"} \cup AfterCall
                  /\ deliveries[i].invoked =
                        IF PcOf(i) \in AfterCall THEN <<<<"shutdown", regs[2]>>>> ELSE << >>

C1_Witness ==
    /\ regs = <<"A", "B">>
    /\ \E i \in Active :
          /\ deliveries[i].signum = SIGTERM
          /\ PcOf(i) = "return"
          /\ deliveries[i].invoked = <<<<"shutdown", "B">>>>

\* C2: with no shutdown callback registered, a delivery of SIGTERM invokes no
\* callback, dumps no stack, raises nothing, and reaches its return having
\* written only its two log lines.
C2_TerminateWithoutCallback ==
    /\ \A i \in 1..Len(deliveries) :
          deliveries[i].signum = SIGTERM => deliveries[i].outcome # "raised"
    /\ ~IsSet(SHUTDOWN_HANDLER) =>
          \A i \in Active :
              deliveries[i].signum = SIGTERM =>
                  /\ deliveries[i].invoked = << >>
                  /\ ~deliveries[i].dumped
                  /\ PcOf(i) \in BeforeCall \cup {"log335", "return"}
                  /\ PcOf(i) = "return" =>
                        deliveries[i].log = <<<<"Signal received", "SIGTERM">>,
                                              <<"No valid signal handler defined", "SIGTERM">>>>

C2_Witness ==
    /\ ~IsSet(SHUTDOWN_HANDLER)
    /\ \E i \in 1..Len(deliveries) :
          /\ deliveries[i].signum = SIGTERM
          /\ deliveries[i].outcome = "returned"
          /\ deliveries[i].invoked = << >>

\* C8: a delivery of a signal other than SIGTERM, SIGHUP and SIGUSR1 raises
\* nothing, invokes no callback and dumps no stack.
C8_UnsupportedSignalDropped ==
    \A i \in 1..Len(deliveries) :
        deliveries[i].signum \notin {SIGTERM, SIGHUP, SIGUSR1} =>
            /\ deliveries[i].outcome # "raised"
            /\ deliveries[i].invoked = << >>
            /\ ~deliveries[i].dumped

\* C9: whatever the two callback slots hold, a delivery of SIGUSR1 invokes no
\* callback, goes to show_frames, and has dumped the stacks when it returns.
C9_DiagnosticDumpsOnly ==
    \A i \in 1..Len(deliveries) :
        deliveries[i].signum = SIGUSR1 =>
            /\ deliveries[i].invoked = << >>
            /\ deliveries[i].outcome = "returned" => deliveries[i].dumped
            /\ i \in Active =>
                  /\ PcOf(i) \in BeforeCall \cup {"show_frames", "return"}
                  /\ deliveries[i].dumped <=> PcOf(i) = "return"

C9_Witness ==
    /\ IsSet(SHUTDOWN_HANDLER) /\ IsSet(REHASH_HANDLER)
    /\ \E i \in 1..Len(deliveries) :
          /\ deliveries[i].signum = SIGUSR1
          /\ deliveries[i].outcome = "returned"
          /\ deliveries[i].dumped

\* C10: a delivery of SIGHUP has, from the call until its return, invoked the
\* registered rehash callback exactly once and nothing else; with no rehash
\* callback registered it invokes nothing, dumps nothing and only logs.
C10_RehashInvokedOnce ==
    /\ \A i \in 1..Len(deliveries) :
          deliveries[i].signum = SIGHUP =>
              /\ Len(deliveries[i].invoked) <= 1
              /\ ~deliveries[i].dumped
              /\ deliveries[i].outcome # "raised"
    /\ \A i \in Active :
          deliveries[i].signum = SIGHUP =>
              IF IsSet(REHASH_HANDLER)
              THEN /\ PcOf(i) \in BeforeCall \cup {"call_rehash"} \cup AfterCall
                   /\ deliveries[i].invoked =
                         IF PcOf(i) \in AfterCall THEN <<<<"rehash", REHASH_HANDLER>>>>
                         ELSE << >>
              ELSE /\ PcOf(i) \in BeforeCall \cup {"log335", "return"}
                   /\ deliveries[i].invoked = << >>
                   /\ PcOf(i) = "return" =>
                         deliveries[i].log = <<<<"Signal received", "SIGHUP">>,
                                               <<"No valid signal handler defined", "SIGHUP">>>>

C10_Witness ==
    \E i, j \in 1..Len(deliveries) :
        /\ deliveries[i].signum = SIGHUP /\ deliveries[j].signum = SIGHUP
        /\ deliveries[i].outcome = "returned" /\ deliveries[j].outcome = "returned"
        /\ deliveries[i].invoked = << >>
        /\ deliveries[j].invoked = <<<<"rehash", "A">>>>

\* C14: at most one execution of signal_handler is active at a time.
C14_OneHandlerAtATime == Len(stack) <= 1

Installed == [n \in Signums |-> IF n \in {SIGTERM, SIGHUP, SIGUSR1} THEN "signal_handler"
                                ELSE InitialDisposition[n]]

\* C15: the dispositions are those the process started with until
\* setup_signals() has run, and from then on signal_handler for SIGTERM,
\* SIGHUP and SIGUSR1 and the initial disposition for every other signal.
C15_ThreeSignalsInstalled == disposition \in {InitialDisposition, Installed}

C15_Witness ==
    /\ disposition = Installed
    /\ disposition[2] = "default_int_handler" /\ disposition[12] = "SIG_DFL"
    /\ {n \in Signums : disposition[n] = "signal_handler"} = {SIGTERM, SIGHUP, SIGUSR1}

\* the callbacks of one kind a delivery has invoked
Kinds(i) == {deliveries[i].invoked[k][1] : k \in 1..Len(deliveries[i].invoked)}

ActionsTaken(i) == Len(deliveries[i].invoked) + (IF deliveries[i].dumped THEN 1 ELSE 0)

\* C17: every delivery has taken at most one of the three actions, and only
\* the one of its signal: SIGTERM the shutdown callback, SIGHUP the rehash
\* callback, SIGUSR1 the stack dump, any other signal none.
C17_OneMatchingAction ==
    \A i \in 1..Len(deliveries) :
        /\ ActionsTaken(i) <= 1
        /\ deliveries[i].signum = SIGTERM => Kinds(i) \subseteq {"shutdown"} /\ ~deliveries[i].dumped
        /\ deliveries[i].signum = SIGHUP => Kinds(i) \subseteq {"rehash"} /\ ~deliveries[i].dumped
        /\ deliveries[i].signum = SIGUSR1 => Kinds(i) = {}
        /\ deliveries[i].signum \notin {SIGTERM, SIGHUP, SIGUSR1} => ActionsTaken(i) = 0

C17_Witness ==
    /\ IsSet(SHUTDOWN_HANDLER) /\ IsSet(REHASH_HANDLER)
    /\ \E i, j, k \in 1..Len(deliveries) :
          /\ deliveries[i].signum = SIGTERM /\ Kinds(i) = {"shutdown"}
          /\ deliveries[j].signum = SIGHUP /\ Kinds(j) = {"rehash"}
          /\ deliveries[k].signum = SIGUSR1 /\ deliveries[k].dumped
          /\ \A d \in {i, j, k} : deliveries[d].outcome = "returned"

\* C18 as stated: once shutdown_handler (resp. rehash_handler) has been called,
\* the slot is never empty.
C18_SlotNeverEmptied ==
    /\ Len(regs) > 0 => IsSet(SHUTDOWN_HANDLER)
    /\ lastRehash # "never called" => IsSet(REHASH_HANDLER)

\* C18 as amended: a slot is empty until its registration function is called
\* and from then on holds the argument of the latest call, None included; while
\* it holds a callback, a SIGTERM (resp. SIGHUP) delivery has invoked exactly
\* that callback once it is past the call, and while it is empty the delivery
\* invokes nothing.
C18_SlotHoldsLatestArgument ==
    /\ SHUTDOWN_HANDLER = IF Len(regs) > 0 THEN regs[Len(regs)] ELSE None
    /\ REHASH_HANDLER = IF lastRehash # "never called" THEN lastRehash ELSE None
    /\ \A i \in Active :
          /\ deliveries[i].signum = SIGTERM /\ PcOf(i) \in AfterCall =>
                deliveries[i].invoked =
                    IF IsSet(SHUTDOWN_HANDLER) THEN <<<<"shutdown", SHUTDOWN_HANDLER>>>> ELSE << >>
          /\ deliveries[i].signum = SIGHUP /\ PcOf(i) \in AfterCall =>
                deliveries[i].invoked =
                    IF IsSet(REHASH_HANDLER) THEN <<<<"rehash", REHASH_HANDLER>>>> ELSE << >>

C18_Witness ==
    /\ regs = <<"A", None>> /\ SHUTDOWN_HANDLER = None
    /\ lastRehash = "B" /\ REHASH_HANDLER = "B"
    /\ \E i \in Active :
          deliveries[i].signum = SIGTERM /\ PcOf(i) = "return" /\ deliveries[i].invoked = << >>

C19_FrameStep ==
    /\ SHUTDOWN_HANDLER' # SHUTDOWN_HANDLER \/ regs' # regs =>
          /\ stack = << >>
          /\ Len(regs') > 0 /\ SHUTDOWN_HANDLER' = regs'[Len(regs')]
          /\ UNCHANGED <<REHASH_HANDLER, RUNNING, stack, deliveries, lastRehash>>
    /\ REHASH_HANDLER' # REHASH_HANDLER \/ lastRehash' # lastRehash =>
          /\ stack = << >>
          /\ REHASH_HANDLER' = lastRehash'
          /\ UNCHANGED <<SHUTDOWN_HANDLER, RUNNING, stack, deliveries, regs>>
    /\ stack' # stack \/ deliveries' # deliveries =>
          UNCHANGED <<SHUTDOWN_HANDLER, REHASH_HANDLER, RUNNING>>
    /\ RUNNING' = RUNNING

\* C19: the state starts as RUNNING = False with both slots None; a step of
\* shutdown_handler changes the shutdown slot only, a step of rehash_handler
\* the rehash slot only, and a step of signal_handler changes neither slot nor
\* RUNNING.
C19_LifecycleFrame ==
    /\ SHUTDOWN_HANDLER = None /\ REHASH_HANDLER = None /\ RUNNING = FALSE
    /\ [][C19_FrameStep]_vars

C19_Witness ==
    /\ SHUTDOWN_HANDLER = "A" /\ REHASH_HANDLER = "B" /\ RUNNING = FALSE
    /\ \E i, j \in 1..Len(deliveries) :
          /\ deliveries[i].outcome = "returned" /\ deliveries[i].invoked = <<<<"shutdown", "A">>>>
          /\ deliveries[j].outcome = "returned" /\ deliveries[j].invoked = <<<<"rehash", "B">>>>

(* ======================================================================= *)
(*                      properties of setup_logging()                      *)
(* ======================================================================= *)
\* C20 as stated: with debug set, the configuration handed to
\* logging.basicConfig has level == "debug" and no filename key.
C20_DebugLevelIsTheString ==
    logsetup.called /\ logsetup.debug =>
        /\ "level" \in DOMAIN logsetup.passed
        /\ logsetup.passed["level"] = PyStr("debug")
        /\ "filename" \notin DOMAIN logsetup.passed

\* C20 as amended: with debug set, the call reaches logging.basicConfig
\* whatever the configuration holds, and the configuration handed over has
\* level == 10, the number LEVELS gives for 'debug', and no filename key.
C20_DebugLevelIsTheNumber ==
    logsetup.debug =>
        /\ logsetup.err # "KeyError:level"
        /\ logsetup.called =>
              /\ "level" \in DOMAIN logsetup.passed
              /\ logsetup.passed["level"] = PyInt(10)
              /\ "filename" \notin DOMAIN logsetup.passed
              /\ "FileHandler" \notin logsetup.handlers

C20_Witness ==
    /\ logsetup.debug /\ logsetup.called /\ logsetup.pc = "done"
    /\ logsetup.passed["level"] = PyInt(10)
    /\ DOMAIN logsetup.passed = {"format", "level"}

====
